---- MODULE Spec2Model ----
(***************************************************************************)
(* Chamonix ski pass automation: the webhook listener (fastAPI.py), the    *)
(* order runner (process_runner.py), the portal bots (cbm_portal.py,       *)
(* earlybird_portal.py) and the notification sinks (mail_sender.py,        *)
(* notifications.py), as state machines.                                   *)
(*                                                                         *)
(*   Spec          one background unit: _process_order_background ->       *)
(*                 run_automation -> process_order_runner -> bot           *)
(*   SpecRegistry  _get_bot_class_for_site as a pure function of the key   *)
(*   SpecVerify    verify_signature_base64 and handle_webhook              *)
(*                                                                         *)
(* Python values are records [t, v]: t is the type, v a sequence.  Text is *)
(* a sequence of one-character strings, bytes a sequence of 0..255.        *)
(***************************************************************************)
EXTENDS Integers, Sequences, FiniteSets, TLC

VARIABLES
    \* ---- one background unit (Spec)
    pc,        \* position of the unit in the code
    order,     \* the payload handed to the unit (order_data)
    task,      \* what the n-th bot instance built for this order does
    attempts,  \* bot instances constructed so far
    bot,       \* the local `bot` of process_order_runner and its driver
    ops,       \* bot methods invoked, in order: <<instance, method>>
    ret,       \* the value process_order_runner returns
    exc,       \* the exception in flight ("none" when there is none)
    result,    \* the local `result` of _process_order_background
    sent,      \* notification calls made, in order
    cfg,       \* the environment as read so far
    logs,      \* logger.error / logger.exception records of the runner
    \* ---- registry (SpecRegistry)
    rin,       \* how the site key under test was written
    rout,      \* what resolution gave for it
    \* ---- webhook intake (SpecVerify)
    venv,      \* WEBHOOK_SECRET and SHARED_SECRET of the process
    vreq,      \* the request being handled
    vout,      \* what verify_signature_base64 answered
    vresp,     \* the response of the endpoint
    vqueue,    \* payloads handed to background_tasks.add_task
    \* ---- manual test endpoint (SpecDev)
    denv,      \* DEV_WEBHOOK_ENABLED of the process
    dresp,     \* the response of the manual endpoint
    dqueue,    \* payloads the manual endpoint handed to add_task
    \* ---- several background units side by side (SpecUnits)
    units,     \* the units scheduled so far, each with its locals
    bots,      \* the bot objects constructed so far: the self.driver of each
    sessions,  \* the browser sessions that are open
    opened,    \* browser sessions opened so far
    deliveries \* webhook deliveries handled so far

runnerVars == <<pc, order, task, attempts, bot, ops, ret, exc, result, sent, cfg, logs>>
registryVars == <<rin, rout>>
verifyVars == <<venv, vreq, vout, vresp, vqueue>>
devVars == <<denv, dresp, dqueue>>
unitVars == <<units, bots, sessions, opened, deliveries>>
vars == <<runnerVars, registryVars, verifyVars, devVars, unitVars>>

----------------------------------------------------------------------------
(* Bounds of the model *)

\* attempts the design's retry policy allows (its default); the range of a task script
MaxAttempts == 2
\* whitespace characters put before and after a site key
MaxPad == 1

----------------------------------------------------------------------------
(* Python values *)

NoneV == [t |-> "none", v |-> <<>>]
PyStr(s) == [t |-> "str", v |-> s]
PyInt(n) == [t |-> "int", v |-> <<n>>]

\* bool(x)
Truthy(x) ==
    CASE x.t = "none" -> FALSE
      [] x.t = "str" -> x.v # <<>>
      [] x.t = "int" -> x.v # <<0>>
      [] OTHER -> TRUE

\* a or b
PyOr(a, b) == IF Truthy(a) THEN a ELSE b

UpperLetters ==
    <<"A","B","C","D","E","F","G","H","I","J","K","L","M",
      "N","O","P","Q","R","S","T","U","V","W","X","Y","Z">>
LowerLetters ==
    <<"a","b","c","d","e","f","g","h","i","j","k","l","m",
      "n","o","p","q","r","s","t","u","v","w","x","y","z">>
Whitespace == {" ", "\t", "\n"}

LowerChar(c) ==
    IF \E i \in 1..Len(UpperLetters) : UpperLetters[i] = c
    THEN LowerLetters[CHOOSE i \in 1..Len(UpperLetters) : UpperLetters[i] = c]
    ELSE c
UpperChar(c) ==
    IF \E i \in 1..Len(LowerLetters) : LowerLetters[i] = c
    THEN UpperLetters[CHOOSE i \in 1..Len(LowerLetters) : LowerLetters[i] = c]
    ELSE c

\* str.lower()
Lower(s) == [i \in 1..Len(s) |-> LowerChar(s[i])]

RECURSIVE LStrip(_)
LStrip(s) == IF s # <<>> /\ Head(s) \in Whitespace THEN LStrip(Tail(s)) ELSE s
RECURSIVE RStrip(_)
RStrip(s) ==
    IF s # <<>> /\ s[Len(s)] \in Whitespace THEN RStrip(SubSeq(s, 1, Len(s) - 1)) ELSE s
\* str.strip()
Strip(s) == RStrip(LStrip(s))

----------------------------------------------------------------------------
(* Portal task registry: process_runner._get_bot_class_for_site *)

K_cbm == <<"c","b","m">>
K_earlybird == <<"e","a","r","l","y","b","i","r","d">>
K_early_dash == <<"e","a","r","l","y","-","b","i","r","d">>
K_early_under == <<"e","a","r","l","y","_","b","i","r","d">>
K_unknown == <<"u","n","k","n","o","w","n","-","x">>

\* key = site.strip().lower()
MutNormalizeNoStrip(s) == Lower(s)
NormalizeKey(s) == Lower(Strip(s))

\* (BotClass, error_message), or the exception the call raises.  importOk: whether
\* the lazy import of the portal module succeeds.
get_bot_class_for_site(site, importOk) ==
    IF ~Truthy(site)
    THEN [cls |-> "None", err |-> "no_site_specified", key |-> <<>>, raised |-> "none"]
    ELSE IF site.t # "str"
    THEN [cls |-> "None", err |-> "", key |-> <<>>, raised |-> "AttributeError"]
    ELSE LET key == NormalizeKey(site.v) IN
         IF key = K_cbm
         THEN IF importOk
              THEN [cls |-> "CBMPortalBot", err |-> "None", key |-> key, raised |-> "none"]
              ELSE [cls |-> "None", err |-> "cbm_import_failed", key |-> key, raised |-> "none"]
         ELSE IF key \in {K_earlybird, K_early_dash, K_early_under}
         THEN IF importOk
              THEN [cls |-> "EARLYBIRDPortalBot", err |-> "None", key |-> key, raised |-> "none"]
              ELSE [cls |-> "None", err |-> "earlybird_import_failed", key |-> key,
                    raised |-> "none"]
         ELSE [cls |-> "None", err |-> "unsupported_site", key |-> key, raised |-> "none"]

\* site = order_data.get("site") or "cbm"
SiteOf(o) == PyOr(o.site, PyStr(K_cbm))
\* order_id = order_data.get("order_id") or order_data.get("id")
OrderIdOf(o) == PyOr(o.order_id, o.id)

----------------------------------------------------------------------------
(* The background unit *)

\* What a bot instance does: the stage its attempt ends in, and how.
Behaviours ==
    {"init_false", "init_raise", "login_false", "login_raise",
     "exec_voucher", "exec_success", "exec_failure", "exec_str", "exec_other",
     "exec_raise"}
FailingBehaviours ==
    {"init_false", "init_raise", "login_false", "login_raise", "exec_failure",
     "exec_raise"}
RaisingBehaviours == {"init_raise", "login_raise", "exec_raise"}

\* A task script gives the behaviour of the n-th instance built for the order:
\* the same every time, or failing k times and then producing a voucher.
Tasks ==
    {[n \in 1..MaxAttempts |-> b] : b \in Behaviours}
    \cup {[n \in 1..MaxAttempts |-> IF n <= k THEN b ELSE "exec_voucher"] :
            b \in FailingBehaviours, k \in 1..(MaxAttempts - 1)}

Sites ==
    {NoneV, PyStr(<<>>), PyStr(K_cbm), PyStr(<<"C","B","M"," ">>), PyStr(K_early_dash),
     PyStr(K_unknown), PyInt(5)}
Orders ==
    {[order_id |-> oid, id |-> i, site |-> s] :
        oid \in {NoneV, PyInt(101)}, i \in {NoneV, PyInt(101), PyInt(202)}, s \in Sites}

NoBot == [made |-> FALSE, driver |-> "none"]
CfgUnread ==
    [import |-> "unread", creds |-> "unread", smtp_port |-> "unread",
     smtp |-> "unread", slack |-> "unread", quit |-> "unread"]

VoucherPath == PyStr(<<"v">>)

RunnerInit ==
    /\ pc = "runner"
    /\ order \in Orders
    /\ task \in Tasks
    /\ attempts = 0
    /\ bot = NoBot
    /\ ops = <<>>
    /\ ret = NoneV
    /\ exc = "none"
    /\ result = NoneV
    /\ sent = <<>>
    /\ cfg = CfgUnread
    /\ logs = <<>>

RoutIdle ==
    [state |-> "idle", importOk |-> TRUE,
     r |-> [cls |-> "None", err |-> "None", key |-> <<>>, raised |-> "none"]]
RegistryIdle ==
    /\ rin = [base |-> <<>>, mode |-> "lower", l |-> <<>>, r |-> <<>>, absent |-> TRUE]
    /\ rout = RoutIdle
VoutIdle == [state |-> "idle", val |-> FALSE, raised |-> "none", caught |-> "none"]
VrespIdle ==
    [state |-> "idle", code |-> 0, msg |-> "", order_id |-> NoneV, status_value |-> <<>>,
     enqueue |-> FALSE]
DevIdle ==
    /\ denv = NoneV
    /\ dresp = VrespIdle
    /\ dqueue = <<>>
UnitsIdle ==
    /\ units = <<>>
    /\ bots = <<>>
    /\ sessions = {}
    /\ opened = 0
    /\ deliveries = 0
VerifyIdle ==
    /\ venv = [WEBHOOK_SECRET |-> NoneV, SHARED_SECRET |-> NoneV]
    /\ vreq = [sig |-> NoneV, sigkind |-> "absent", body |-> <<>>]
    /\ vout = VoutIdle
    /\ vresp = VrespIdle
    /\ vqueue = <<>>

\* whether resolving this site reaches one of the lazy imports
ReachesImport(site) ==
    /\ Truthy(site)
    /\ site.t = "str"
    /\ NormalizeKey(site.v) \in {K_cbm, K_earlybird, K_early_dash, K_early_under}

\* process_order_runner, lines 53-59: the order id, the site, the bot class
RunnerResolve ==
    /\ pc = "runner"
    /\ \E importOk \in (IF ReachesImport(SiteOf(order)) THEN BOOLEAN ELSE {TRUE}) :
         LET r == get_bot_class_for_site(SiteOf(order), importOk) IN
         /\ cfg' = [cfg EXCEPT !.import =
                      IF ~ReachesImport(SiteOf(order)) THEN "unread"
                      ELSE IF importOk THEN "ok" ELSE "fails"]
         /\ IF r.raised # "none"
            THEN /\ exc' = r.raised
                 /\ pc' = "run_automation"
                 /\ UNCHANGED <<ret, logs>>
            ELSE IF r.cls = "None"
            THEN /\ ret' = NoneV
                 /\ logs' = Append(logs, "bot selection failed")
                 /\ pc' = "run_automation"
                 /\ exc' = exc
            ELSE /\ pc' = "construct"
                 /\ UNCHANGED <<ret, exc, logs>>
    /\ UNCHANGED <<order, task, attempts, bot, ops, result, sent>>

\* bot = bot_class(): the constructor raises ValueError without credentials
Construct ==
    /\ pc = "construct"
    /\ \E credsOk \in BOOLEAN :
         /\ cfg' = [cfg EXCEPT !.creds = IF credsOk THEN "set" ELSE "missing"]
         /\ IF credsOk
            THEN /\ attempts' = attempts + 1
                 /\ bot' = [made |-> TRUE, driver |-> "none"]
                 /\ pc' = "initialize_driver"
                 /\ exc' = exc
            ELSE /\ exc' = "ValueError"
                 /\ pc' = "except"
                 /\ UNCHANGED <<attempts, bot>>
    /\ UNCHANGED <<order, task, ops, ret, result, sent, logs>>

\* The behaviour of the instance the runner holds
Behaviour == task[attempts]

\* the runner going on to login whatever initialize_driver returned
MutInitializeDriverUnchecked ==
    /\ pc = "initialize_driver"
    /\ ops' = Append(ops, <<attempts, "initialize_driver">>)
    /\ IF Behaviour = "init_raise"
       THEN /\ exc' = "TaskError"
            /\ pc' = "except"
            /\ UNCHANGED <<bot, ret, logs>>
       ELSE /\ bot' = [bot EXCEPT !.driver = IF Behaviour = "init_false" THEN "none" ELSE "live"]
            /\ pc' = "login"
            /\ UNCHANGED <<ret, exc, logs>>
    /\ UNCHANGED <<order, task, attempts, result, sent, cfg>>

\* init_ok = bot.initialize_driver(), lines 66-69; the bot's lines 30-46: a driver
\* left from before is cleaned up first, a driver that does not start gives False
initialize_driver ==
    /\ pc = "initialize_driver"
    /\ LET pre == IF bot.driver = "live" THEN <<<<attempts, "cleanup">>>> ELSE <<>> IN
       ops' = ops \o pre \o <<<<attempts, "initialize_driver">>>>
    /\ IF Behaviour = "init_raise"
       THEN /\ exc' = "TaskError"
            /\ pc' = "except"
            /\ UNCHANGED <<bot, ret, logs>>
       ELSE IF Behaviour = "init_false"
       THEN /\ bot' = [bot EXCEPT !.driver = "none"]
            /\ logs' = Append(logs, "driver initialization failed")
            /\ ret' = NoneV
            /\ pc' = "finally"
            /\ exc' = exc
       ELSE /\ bot' = [bot EXCEPT !.driver = "live"]
            /\ pc' = "login"
            /\ UNCHANGED <<ret, exc, logs>>
    /\ UNCHANGED <<order, task, attempts, result, sent, cfg>>

\* login_ok = bot.login(), lines 72-75
login ==
    /\ pc = "login"
    /\ ops' = Append(ops, <<attempts, "login">>)
    /\ IF Behaviour = "login_raise"
       THEN /\ exc' = "TaskError"
            /\ pc' = "except"
            /\ UNCHANGED <<ret, logs>>
       ELSE IF Behaviour = "login_false"
       THEN /\ logs' = Append(logs, "login failed")
            /\ ret' = NoneV
            /\ pc' = "finally"
            /\ exc' = exc
       ELSE /\ pc' = "process_order"
            /\ UNCHANGED <<ret, exc, logs>>
    /\ UNCHANGED <<order, task, attempts, bot, result, sent, cfg>>

\* What the runner returns for the value process_order gave, lines 80-97
ResultOf(b) ==
    CASE b = "exec_voucher" -> VoucherPath   \* dict, success, voucher_path
      [] b = "exec_success" -> NoneV         \* dict, success, no voucher yet
      [] b = "exec_failure" -> NoneV         \* dict, not success
      [] b = "exec_str" -> VoucherPath       \* a str: the path itself
      [] OTHER -> NoneV                      \* any other type

\* result = bot.process_order(order_data), lines 78-97
process_order ==
    /\ pc = "process_order"
    /\ ops' = Append(ops, <<attempts, "process_order">>)
    /\ IF Behaviour = "exec_raise"
       THEN /\ exc' = "TaskError"
            /\ pc' = "except"
            /\ UNCHANGED <<ret, logs>>
       ELSE /\ ret' = ResultOf(Behaviour)
            /\ logs' = CASE Behaviour = "exec_failure" -> Append(logs, "processing failed")
                         [] Behaviour = "exec_other" -> Append(logs, "unexpected result type")
                         [] OTHER -> logs
            /\ pc' = "finally"
            /\ exc' = exc
    /\ UNCHANGED <<order, task, attempts, bot, result, sent, cfg>>

\* mail_sender.send_error_email: int(os.getenv("SMTP_PORT")) is evaluated outside
\* the try, so an unset port raises TypeError to the caller; the SMTP exchange is
\* inside it, so a failed delivery is only printed.
send_error_email_raises(port) == port = "unset"

\* except Exception as e, lines 99-107
except_handler ==
    /\ pc = "except"
    /\ \E port \in {"unset", "set"}, delivered \in BOOLEAN :
         /\ port = "unset" => delivered
         /\ IF send_error_email_raises(port)
            THEN /\ exc' = "TypeError"
                 /\ cfg' = [cfg EXCEPT !.smtp_port = port]
                 /\ UNCHANGED <<ret, sent>>
            ELSE /\ exc' = "none"
                 /\ cfg' = [cfg EXCEPT !.smtp_port = port,
                                       !.smtp = IF delivered THEN "ok" ELSE "fails"]
                 /\ sent' = Append(sent,
                        [sink |-> "email", kind |-> "unexpected_error",
                         order_id |-> OrderIdOf(order), reason |-> exc,
                         delivered |-> delivered, at |-> "runner", attempt |-> attempts])
                 /\ ret' = NoneV
    /\ logs' = Append(logs, "unexpected error")
    /\ pc' = "finally"
    /\ UNCHANGED <<order, task, attempts, bot, ops, result>>

\* finally: if bot: bot.cleanup(), lines 109-111; the bot's lines 91-98: quit the
\* driver if there is one; a quit that raises is logged and leaves the driver set
MutCleanupGuard(b, e) == b.made /\ e = "none"
CleanupGuard(b, e) == b.made

finally_cleanup ==
    /\ pc = "finally"
    /\ IF CleanupGuard(bot, exc)
       THEN /\ ops' = Append(ops, <<attempts, "cleanup">>)
            /\ \E quitOk \in (IF bot.driver = "live" THEN BOOLEAN ELSE {TRUE}) :
                 /\ bot' = [bot EXCEPT !.driver = IF quitOk THEN "none" ELSE "live"]
                 /\ cfg' = [cfg EXCEPT !.quit =
                              IF bot.driver # "live" THEN "unread"
                              ELSE IF quitOk THEN "ok" ELSE "fails"]
       ELSE UNCHANGED <<ops, bot, cfg>>
    /\ pc' = "run_automation"
    /\ UNCHANGED <<order, task, attempts, ret, exc, result, sent, logs>>

AutomationException == [t |-> "dict", v |-> <<"automation_exception">>]

\* fastAPI.run_automation, lines 76-80: the runner's value, or a failure dict when
\* the runner raised
run_automation ==
    /\ pc = "run_automation"
    /\ IF exc # "none"
       THEN result' = AutomationException
       ELSE result' = ret
    /\ exc' = "none"
    /\ pc' = "background"
    /\ UNCHANGED <<order, task, attempts, bot, ops, ret, sent, cfg, logs>>

\* fastAPI._process_order_background, lines 85-102: result.get("success") on a dict
\* that reports no success sends the failure alert; on None or a str it raises
\* AttributeError, and the outer handler sends the critical alert.
\* notifications.send_slack_alert never raises: no URL, a refused post and an
\* exception all give False.
background ==
    /\ pc = "background"
    /\ \E slack \in {"unset", "ok", "fails"} :
         /\ cfg' = [cfg EXCEPT !.slack = slack]
         /\ sent' = Append(sent,
                [sink |-> "slack",
                 kind |-> IF result.t = "dict" THEN "failed" ELSE "critical",
                 order_id |-> order.order_id,
                 reason |-> IF result.t = "dict" THEN "automation_exception" ELSE "none",
                 delivered |-> (slack = "ok"), at |-> "background", attempt |-> attempts])
    /\ pc' = "done"
    /\ UNCHANGED <<order, task, attempts, bot, ops, ret, exc, result, logs>>

Init == RunnerInit /\ RegistryIdle /\ VerifyIdle /\ DevIdle /\ UnitsIdle
Next ==
    \/ RunnerResolve /\ UNCHANGED <<registryVars, verifyVars, devVars, unitVars>>
    \/ Construct /\ UNCHANGED <<registryVars, verifyVars, devVars, unitVars>>
    \/ initialize_driver /\ UNCHANGED <<registryVars, verifyVars, devVars, unitVars>>
    \/ login /\ UNCHANGED <<registryVars, verifyVars, devVars, unitVars>>
    \/ process_order /\ UNCHANGED <<registryVars, verifyVars, devVars, unitVars>>
    \/ except_handler /\ UNCHANGED <<registryVars, verifyVars, devVars, unitVars>>
    \/ finally_cleanup /\ UNCHANGED <<registryVars, verifyVars, devVars, unitVars>>
    \/ run_automation /\ UNCHANGED <<registryVars, verifyVars, devVars, unitVars>>
    \/ background /\ UNCHANGED <<registryVars, verifyVars, devVars, unitVars>>
Spec == Init /\ [][Next]_vars

----------------------------------------------------------------------------
(* Properties of the background unit, checked under Spec *)

\* how often method m of instance i was invoked
Count(i, m) == Cardinality({k \in 1..Len(ops) : ops[k] = <<i, m>>})
\* how often method m was invoked on any instance
CountAll(m) == Cardinality({k \in 1..Len(ops) : ops[k][2] = m})
\* process_order_runner has returned or raised
RunnerExited == pc \in {"run_automation", "background", "done"}
\* the runner's value is a voucher path
ReturnedVoucher == ret.t = "str"

\* C1: every bot instance the runner constructs has cleanup invoked at most once
\* at any time, and exactly once by the time the runner is left, whichever way
\* the attempt ended (a stage returned False, process_order returned anything, or
\* a stage raised).
C1_CleanupExactlyOnce ==
    \A i \in 1..attempts :
        /\ Count(i, "cleanup") <= 1
        /\ RunnerExited => Count(i, "cleanup") = 1

\* an attempt whose process_order raised has been left, with its one cleanup
C1_Witness ==
    /\ pc = "done"
    /\ attempts = 1
    /\ task[1] = "exec_raise"
    /\ ops = <<<<1, "initialize_driver">>, <<1, "login">>, <<1, "process_order">>,
               <<1, "cleanup">>>>

\* C2: with max_attempts = 2 and a bot whose initialize_driver always returns
\* False, the run ends as a failure logged as a driver initialization failure
\* after 2 attempts, with cleanup invoked twice and login and process_order never.
C2_AcquireAlwaysFalse ==
    (/\ pc = "done"
     /\ attempts >= 1
     /\ \A n \in 1..MaxAttempts : task[n] = "init_false")
    => /\ attempts = MaxAttempts
       /\ CountAll("cleanup") = MaxAttempts
       /\ CountAll("login") = 0
       /\ CountAll("process_order") = 0
       /\ ~ReturnedVoucher
       /\ logs # <<>> /\ logs[Len(logs)] = "driver initialization failed"

\* C3: with max_attempts = 2 and a bot that fails on attempt 1 and produces a
\* voucher on attempt 2, the run returns that voucher after 2 attempts, and one
\* failure notification was sent in the whole run.
C3_FailThenSucceed ==
    (/\ pc = "done"
     /\ attempts >= 1
     /\ task[1] \in FailingBehaviours
     /\ task[MaxAttempts] = "exec_voucher")
    => /\ attempts = MaxAttempts
       /\ ret = VoucherPath
       /\ Len(sent) = 1

\* C4: every failing attempt (a stage returned False, process_order reported a
\* failure, or a stage raised) has, when the runner decides to stop or go on, sent
\* a notification that carries the order id and the failure reason.
C4_FailureNotified ==
    (/\ RunnerExited
     /\ attempts >= 1
     /\ task[attempts] \in FailingBehaviours)
    => \E k \in 1..Len(sent) :
          /\ sent[k].attempt = attempts
          /\ sent[k].at = "runner"
          /\ sent[k].order_id = OrderIdOf(order)
          /\ sent[k].reason # "none"

\* C5: when a stage of the bot raises, the runner catches it, still invokes
\* cleanup on that instance, returns a failure (no voucher), has counted the
\* attempt, and leaves no exception in flight for its caller.
C5_ExceptionContained ==
    (/\ RunnerExited
     /\ attempts >= 1
     /\ task[attempts] \in RaisingBehaviours)
    => /\ Count(attempts, "cleanup") = 1
       /\ ~ReturnedVoucher
       /\ "unexpected error" \in {logs[k] : k \in 1..Len(logs)}
       /\ pc = "run_automation" => exc = "none"

\* resolution failed for a site key that is a string (or absent): no class for
\* the key, or the class could not be constructed
ResolutionFailed ==
    /\ RunnerExited
    /\ attempts = 0
    /\ SiteOf(order).t = "str"

\* C6: when resolution fails (no bot class for the site key, or the constructor
\* fails), the runner returns a failure at once: nothing is raised past it, no
\* instance is built and no method of a bot is invoked.
C6_ResolutionFailureTerminal ==
    ResolutionFailed
    => /\ ops = <<>>
       /\ ~ReturnedVoucher
       /\ pc = "run_automation" => exc = "none"

----------------------------------------------------------------------------
(* The registry alone, SpecRegistry: a site key is written as a base key in some
   letter case between two runs of whitespace, and resolved as the runner does *)

RunnerIdle ==
    /\ pc = "idle"
    /\ order = [order_id |-> NoneV, id |-> NoneV, site |-> NoneV]
    /\ task = [n \in 1..MaxAttempts |-> "exec_voucher"]
    /\ attempts = 0
    /\ bot = NoBot
    /\ ops = <<>>
    /\ ret = NoneV
    /\ exc = "none"
    /\ result = NoneV
    /\ sent = <<>>
    /\ cfg = CfgUnread
    /\ logs = <<>>

RECURSIVE SeqsUpTo(_, _)
\* the sequences over S of length at most n
SeqsUpTo(S, n) ==
    IF n = 0 THEN {<<>>}
    ELSE LET shorter == SeqsUpTo(S, n - 1) IN
         shorter \cup {Append(q, x) : q \in shorter, x \in S}

Pads == SeqsUpTo(Whitespace, MaxPad)
BaseKeys ==
    {<<>>, K_cbm, K_earlybird, K_early_dash, K_early_under, K_unknown,
     <<"c","b">>, <<"c"," ","b","m">>, <<"c","b","m","x">>,
     <<"e","a","r","l","y"," ","b","i","r","d">>}
Modes == {"lower", "upper", "title"}

Cased(s, mode) ==
    [i \in 1..Len(s) |->
        IF mode = "upper" \/ (mode = "title" /\ i = 1) THEN UpperChar(s[i]) ELSE s[i]]

RegistryInputs ==
    {[base |-> b, mode |-> m, l |-> l, r |-> r, absent |-> FALSE] :
        b \in BaseKeys, m \in Modes, l \in Pads, r \in Pads}
    \cup {[base |-> <<>>, mode |-> "lower", l |-> <<>>, r |-> <<>>, absent |-> TRUE]}

\* the value of order_data.get("site") for an input
SiteField(in) == IF in.absent THEN NoneV ELSE PyStr(in.l \o Cased(in.base, in.mode) \o in.r)

RegistryInit ==
    /\ rin \in RegistryInputs
    /\ rout = RoutIdle

\* process_order_runner, lines 54-56
Resolve ==
    /\ rout.state = "idle"
    /\ \E importOk \in BOOLEAN :
         rout' = [state |-> "resolved", importOk |-> importOk,
                  r |-> get_bot_class_for_site(SiteOf([site |-> SiteField(rin)]), importOk)]
    /\ UNCHANGED rin

InitRegistry == RunnerIdle /\ RegistryInit /\ VerifyIdle /\ DevIdle /\ UnitsIdle
NextRegistry ==
    \/ Resolve /\ UNCHANGED <<runnerVars, verifyVars, devVars, unitVars>>
SpecRegistry == InitRegistry /\ [][NextRegistry]_vars

\* the class the registry documents for a normalized key
FactoryFor(key) ==
    IF key = K_cbm THEN "CBMPortalBot"
    ELSE IF key \in {K_earlybird, K_early_dash, K_early_under} THEN "EARLYBIRDPortalBot"
    ELSE "None"

Resolved == rout.state = "resolved" /\ rout.importOk /\ rout.r.raised = "none"

\* C7 as claimed: resolution depends on the site key only through its trimmed,
\* lower-cased form: an absent key gives the default site's class, "cbm" in any
\* case and padding gives one class, the three earlybird spellings another, and
\* every other key gives no class and the error unsupported_site with the
\* normalized key.
C7_Original ==
    Resolved =>
        IF rin.absent THEN rout.r.cls = "CBMPortalBot"
        ELSE IF FactoryFor(rin.base) # "None" THEN rout.r.cls = FactoryFor(rin.base)
        ELSE /\ rout.r.cls = "None"
             /\ rout.r.err = "unsupported_site"
             /\ rout.r.key = rin.base

\* C7 as the code has it: the same, except that the empty string counts as an
\* absent key (it gives the default site's class), while a key of whitespace
\* only is unsupported, with the empty normalized key.
C7_ResolveByNormalizedKey ==
    Resolved =>
        IF rin.absent \/ SiteField(rin).v = <<>> THEN rout.r.cls = "CBMPortalBot"
        ELSE IF FactoryFor(rin.base) # "None" THEN rout.r.cls = FactoryFor(rin.base)
        ELSE /\ rout.r.cls = "None"
             /\ rout.r.err = "unsupported_site"
             /\ rout.r.key = rin.base

\* "CBM " resolved to the CBM class
C7_Witness ==
    /\ Resolved
    /\ SiteField(rin) = PyStr(<<"C","B","M"," ">>)
    /\ rout.r.cls = "CBMPortalBot"

----------------------------------------------------------------------------
(* Webhook intake: fastAPI.verify_signature_base64 and fastAPI.handle_webhook.
   Bytes, and the characters of a header value, are numbers 0..255. *)

\* the literal the secret falls back to
DefaultSecret == <<67,115,112,97,65,79,72,49,53,119,119,87,114,97,105>>
\* "k1", "k2"
Secret1 == <<107,49>>
Secret2 == <<107,50>>
\* "k" and U+DC80: what os.getenv gives for a variable holding the bytes 6B 80
\* (the environment is decoded with surrogateescape)
SecretUndecodable == <<107, 56448>>
EnvValues(k) == {NoneV, PyStr(<<>>), PyStr(k)}
\* str.encode("utf-8") raises UnicodeEncodeError on a lone surrogate
Unencodable(s) == \E i \in 1..Len(s) : s[i] >= 55296 /\ s[i] <= 57343

\* SHARED_SECRET = os.getenv("WEBHOOK_SECRET") or os.getenv("SHARED_SECRET") or "Cspa..."
SharedSecretOf(env) ==
    PyOr(PyOr(env.WEBHOOK_SECRET, env.SHARED_SECRET), PyStr(DefaultSecret)).v

\* bytes of a SHA-256 digest
Sha256DigestSize == 32

RECURSIVE WeightedSum(_, _, _)
\* the sum over positions lo..hi of bs of (byte + 1) * (a weight of the position),
\* by halves
WeightedSum(bs, lo, hi) ==
    IF lo > hi THEN 0
    ELSE IF lo = hi THEN (bs[lo] + 1) * (lo * lo + 3 * lo + 7)
    ELSE LET mid == (lo + hi) \div 2 IN
         WeightedSum(bs, lo, mid) + WeightedSum(bs, mid + 1, hi)

FoldBytes(bs) == WeightedSum(bs, 1, Len(bs)) % 65521

\* hmac.new(key, msg, hashlib.sha256).digest().  The library's digest is stood in
\* for by a keyed function of the same shape: Sha256DigestSize bytes that depend
\* on every byte of the key and of the message, and on their order.
HmacSha256(key, msg) ==
    LET seed == FoldBytes(key \o <<256>> \o msg) IN
    [i \in 1..Sha256DigestSize |->
        ((IF i % 2 = 1 THEN seed % 256 ELSE seed \div 256) + 7 * i) % 256]

\* the base64 alphabet, as character codes
B64Char(n) ==
    IF n < 26 THEN 65 + n
    ELSE IF n < 52 THEN 97 + (n - 26)
    ELSE IF n < 62 THEN 48 + (n - 52)
    ELSE IF n = 62 THEN 43 ELSE 47

RECURSIVE b64encode(_)
\* base64.b64encode(bs).decode()
b64encode(bs) ==
    IF bs = <<>> THEN <<>>
    ELSE IF Len(bs) = 1
    THEN <<B64Char(bs[1] \div 4), B64Char((bs[1] % 4) * 16), 61, 61>>
    ELSE IF Len(bs) = 2
    THEN <<B64Char(bs[1] \div 4),
           B64Char((bs[1] % 4) * 16 + (bs[2] \div 16)),
           B64Char((bs[2] % 16) * 4), 61>>
    ELSE <<B64Char(bs[1] \div 4),
           B64Char((bs[1] % 4) * 16 + (bs[2] \div 16)),
           B64Char((bs[2] % 16) * 4 + (bs[3] \div 64)),
           B64Char(bs[3] % 64)>> \o b64encode(SubSeq(bs, 4, Len(bs)))

NonAscii(s) == \E i \in 1..Len(s) : s[i] > 127

\* hmac.compare_digest(a, b) on two str: TypeError when either holds a
\* non-ASCII character, else whether they are equal
MutCompareDigestPrefix(a, b) ==
    IF NonAscii(a) \/ NonAscii(b) THEN [val |-> FALSE, raised |-> "TypeError"]
    ELSE [val |-> Len(b) <= Len(a) /\ SubSeq(a, 1, Len(b)) = b, raised |-> "none"]
compare_digest(a, b) ==
    IF NonAscii(a) \/ NonAscii(b) THEN [val |-> FALSE, raised |-> "TypeError"]
    ELSE [val |-> a = b, raised |-> "none"]

\* the try block of verify_signature_base64, lines 50-58
VerifyTry(request_body, signature, secret) ==
    IF secret = <<>> THEN [val |-> TRUE, raised |-> "none"]
    ELSE IF Unencodable(secret) THEN [val |-> FALSE, raised |-> "UnicodeEncodeError"]
    ELSE compare_digest(b64encode(HmacSha256(secret, request_body)), signature)

\* verify_signature_base64, lines 44-61: an exception in the try block gives False
MutVerifyNoCatch(request_body, signature, secret) ==
    LET r == VerifyTry(request_body, signature, secret) IN
    [state |-> "returned", val |-> r.val, raised |-> r.raised, caught |-> "none"]
verify_signature_base64(request_body, signature, secret) ==
    LET r == VerifyTry(request_body, signature, secret) IN
    IF r.raised # "none"
    THEN [state |-> "returned", val |-> FALSE, raised |-> "none", caught |-> r.raised]
    ELSE [state |-> "returned", val |-> r.val, raised |-> "none", caught |-> "none"]

\* Request bodies
\* {"id":1,"status":"processing"}
Raw_processing == <<123,34,105,100,34,58,49,44,34,115,116,97,116,117,115,34,58,34,112,114,111,99,101,115,115,105,110,103,34,125>>
\* {"order_id":2,"id":1,"status":"Processing"}
Raw_both_ids == <<123,34,111,114,100,101,114,95,105,100,34,58,50,44,34,105,100,34,58,49,44,34,115,116,97,116,117,115,34,58,34,80,114,111,99,101,115,115,105,110,103,34,125>>
\* {"id":1,"status":"completed"}
Raw_completed == <<123,34,105,100,34,58,49,44,34,115,116,97,116,117,115,34,58,34,99,111,109,112,108,101,116,101,100,34,125>>
\* {"id":1}
Raw_no_status == <<123,34,105,100,34,58,49,125>>
\* {"id":1,"status":null}
Raw_null_status == <<123,34,105,100,34,58,49,44,34,115,116,97,116,117,115,34,58,110,117,108,108,125>>
\* {"status":"PROCESSING"}
Raw_no_ids == <<123,34,115,116,97,116,117,115,34,58,34,80,82,79,67,69,83,83,73,78,71,34,125>>
\* {"id":"abc","status":"processing"}
Raw_bad_id == <<123,34,105,100,34,58,34,97,98,99,34,44,34,115,116,97,116,117,115,34,58,34,112,114,111,99,101,115,115,105,110,103,34,125>>
\* {"id":1,"status":""}
Raw_empty_status == <<123,34,105,100,34,58,49,44,34,115,116,97,116,117,115,34,58,34,34,125>>
\* {"id":1,"status":"processing "}
Raw_padded_status == <<123,34,105,100,34,58,49,44,34,115,116,97,116,117,115,34,58,34,112,114,111,99,101,115,115,105,110,103,32,34,125>>
\* []
Raw_array == <<91,93>>
\* null
Raw_null == <<110,117,108,108>>
\* "x"
Raw_string == <<34,120,34>>
\* 7
Raw_number == <<55>>
\* {
Raw_malformed == <<123>>
\* the empty body
Raw_empty == <<>>
\* the bytes FF FE
Raw_bad_utf8 == <<255,254>>

Bodies ==
    {Raw_processing, Raw_both_ids, Raw_completed, Raw_no_status, Raw_null_status,
     Raw_no_ids, Raw_bad_id, Raw_empty_status, Raw_padded_status, Raw_array, Raw_null, Raw_string, Raw_number,
     Raw_malformed, Raw_empty, Raw_bad_utf8}

T_processing == <<"p","r","o","c","e","s","s","i","n","g">>
T_completed == <<"c","o","m","p","l","e","t","e","d">>

Doc(k, id, order_id, status) ==
    [k |-> k, id |-> id, order_id |-> order_id, status |-> status, site |-> NoneV]
NoDoc(k) == Doc(k, NoneV, NoneV, NoneV)

\* json.loads(raw_body.decode("utf-8")) on the bodies above: the document, or the
\* exception; a key that is absent and a key that is null both read as None
JsonLoads(raw) ==
    CASE raw = Raw_processing -> Doc("object", PyInt(1), NoneV, PyStr(T_processing))
      [] raw = Raw_both_ids -> Doc("object", PyInt(1), PyInt(2), PyStr(Cased(T_processing, "title")))
      [] raw = Raw_completed -> Doc("object", PyInt(1), NoneV, PyStr(T_completed))
      [] raw = Raw_no_status -> Doc("object", PyInt(1), NoneV, NoneV)
      [] raw = Raw_null_status -> Doc("object", PyInt(1), NoneV, NoneV)
      [] raw = Raw_no_ids -> Doc("object", NoneV, NoneV, PyStr(Cased(T_processing, "upper")))
      [] raw = Raw_bad_id -> Doc("object", PyStr(<<"a","b","c">>), NoneV, PyStr(T_processing))
      [] raw = Raw_empty_status -> Doc("object", PyInt(1), NoneV, PyStr(<<>>))
      [] raw = Raw_padded_status -> Doc("object", PyInt(1), NoneV, PyStr(Append(T_processing, " ")))
      [] raw = Raw_array -> NoDoc("array")
      [] raw = Raw_null -> NoDoc("null")
      [] raw = Raw_string -> NoDoc("string")
      [] raw = Raw_number -> NoDoc("number")
      [] raw = Raw_bad_utf8 -> NoDoc("UnicodeDecodeError")
      [] OTHER -> NoDoc("JSONDecodeError")

\* WebhookPayload.parse_obj(payload) followed by payload.get(...): a document
\* that is no object, or whose id or order_id is no integer, raises (a
\* ValidationError, or AttributeError from payload.get)
ParsesAsPayload(doc) ==
    /\ doc.k = "object"
    /\ doc.id.t \in {"none", "int"}
    /\ doc.order_id.t \in {"none", "int"}
    /\ doc.status.t \in {"none", "str"}

Response(code, msg, order_id, status_value, enqueue) ==
    [state |-> "sent", code |-> code, msg |-> msg, order_id |-> order_id,
     status_value |-> status_value, enqueue |-> enqueue]

\* status_value = (webhook.status or payload.get("status") or "").lower()
MutStatusValueAsWritten(payload) == PyOr(payload.status, PyStr(<<>>)).v
StatusValue(payload) == Lower(PyOr(payload.status, PyStr(<<>>)).v)

\* if signature: (line 114) - only a header value that is truthy is verified
MutSignatureAlwaysChecked(signature) == TRUE
MutSignatureNeverChecked(signature) == FALSE
SignatureChecked(signature) == Truthy(signature)

\* the detail of the HTTPException the generic handler of lines 146-150 raises
\* for exception e: a fixed text
MutErrorDetailIsException(e) == e
ErrorDetail(e) == "Internal server error"

\* handle_webhook, lines 108-150, with the exception handlers of lines 188-197
handle_webhook(req, secret) ==
    LET signature == PyOr(req.sig, PyStr(<<>>))
        v == verify_signature_base64(req.body, signature.v, secret)
        payload == JsonLoads(req.body)
        order_id == PyOr(PyOr(PyOr(payload.id, payload.order_id), payload.order_id), payload.id)
        status_value == StatusValue(payload)
    IN
    IF SignatureChecked(signature) /\ v.raised # "none"
    THEN Response(500, ErrorDetail(v.raised), NoneV, <<>>, FALSE)
    ELSE IF SignatureChecked(signature) /\ ~v.val
    THEN Response(401, "Invalid signature", NoneV, <<>>, FALSE)
    ELSE IF payload.k = "JSONDecodeError"
    THEN Response(400, "Invalid JSON payload", NoneV, <<>>, FALSE)
    ELSE IF payload.k = "UnicodeDecodeError"
    THEN Response(500, ErrorDetail("UnicodeDecodeError"), NoneV, <<>>, FALSE)
    ELSE IF ~ParsesAsPayload(payload)
    THEN Response(500, ErrorDetail(IF payload.k = "object" THEN "ValidationError"
                                   ELSE "ValidationError:" \o payload.k),
                  NoneV, <<>>, FALSE)
    ELSE IF status_value # T_processing
    THEN Response(200, "not processing", order_id, status_value, FALSE)
    ELSE Response(202, "accepted", order_id, status_value, TRUE)

OtherSecret == <<122>>
\* what base64(hmac_sha256(secret, body)) is for the sender
Sign(body, secret) == b64encode(HmacSha256(secret, body))

SigKinds ==
    {"absent", "empty", "valid", "default_key", "other_key", "other_body", "truncated",
     "extended", "altered", "non_ascii", "garbage"}

\* the signature header of a request, by how the sender made it
SigFor(kind, body, secret) ==
    LET good == Sign(body, secret) IN
    CASE kind = "absent" -> NoneV
      [] kind = "empty" -> PyStr(<<>>)
      [] kind = "valid" -> PyStr(good)
      [] kind = "default_key" -> PyStr(Sign(body, DefaultSecret))
      [] kind = "other_key" -> PyStr(Sign(body, OtherSecret))
      [] kind = "other_body" -> PyStr(Sign(Append(body, 32), secret))
      [] kind = "truncated" -> PyStr(SubSeq(good, 1, Len(good) - 1))
      [] kind = "extended" -> PyStr(Append(good, 61))
      [] kind = "altered" -> PyStr(<<IF good[1] = 65 THEN 66 ELSE 65>> \o Tail(good))
      [] kind = "non_ascii" -> PyStr(<<233>> \o Tail(good))
      [] OTHER -> PyStr(<<120>>)

VerifyInit ==
    /\ venv \in {[WEBHOOK_SECRET |-> w, SHARED_SECRET |-> s] :
                    w \in EnvValues(Secret1) \cup {PyStr(SecretUndecodable)},
                    s \in EnvValues(Secret2)}
    /\ \E kind \in SigKinds, body \in Bodies :
         vreq = [sig |-> SigFor(kind, body, SharedSecretOf(venv)), sigkind |-> kind,
                 body |-> body]
    /\ vout = VoutIdle
    /\ vresp = VrespIdle
    /\ vqueue = <<>>

\* verify_signature_base64 applied to the request's body and signature header
VerifyCall ==
    /\ vout.state = "idle"
    /\ vreq.sig.t = "str"
    /\ vout' = verify_signature_base64(vreq.body, vreq.sig.v, SharedSecretOf(venv))
    /\ UNCHANGED <<venv, vreq, vresp, vqueue>>

\* the endpoint awaiting the automation and answering by its outcome
MutHandleWebhookAwaitsRun ==
    /\ vresp.state = "idle"
    /\ LET r == handle_webhook(vreq, SharedSecretOf(venv)) IN
       vresp' = IF r.enqueue /\ task[1] # "exec_voucher"
                THEN Response(500, ErrorDetail("automation"), NoneV, <<>>, TRUE)
                ELSE r
    /\ vqueue' = IF vresp'.enqueue THEN Append(vqueue, JsonLoads(vreq.body)) ELSE vqueue
    /\ UNCHANGED <<venv, vreq, vout>>

\* POST /webhook/woocommerce
HandleWebhook ==
    /\ vresp.state = "idle"
    /\ vresp' = handle_webhook(vreq, SharedSecretOf(venv))
    /\ vqueue' = IF vresp'.enqueue THEN Append(vqueue, JsonLoads(vreq.body)) ELSE vqueue
    /\ UNCHANGED <<venv, vreq, vout>>

InitVerify == RunnerIdle /\ RegistryIdle /\ VerifyInit /\ DevIdle /\ UnitsIdle
NextVerify ==
    \/ VerifyCall /\ UNCHANGED <<runnerVars, registryVars, devVars, unitVars>>
    \/ HandleWebhook /\ UNCHANGED <<runnerVars, registryVars, devVars, unitVars>>
SpecVerify == InitVerify /\ [][NextVerify]_vars

VerifyReturned == vout.state = "returned"
Responded == vresp.state = "sent"
Unconfigured == ~Truthy(venv.WEBHOOK_SECRET) /\ ~Truthy(venv.SHARED_SECRET)
UsableSecret == SharedSecretOf(venv) # <<>> /\ ~Unencodable(SharedSecretOf(venv))
\* the try block of the verifier raises on this request
InternalError == VerifyTry(vreq.body, vreq.sig.v, SharedSecretOf(venv)).raised # "none"

\* C8: with a non-empty secret (one that can be encoded), the verifier returns
\* true exactly when the signature is base64(HMAC-SHA256(secret, body)): the
\* sender's signature of the body is accepted and every other value is rejected.
C8_VerifyIffSignatureMatches ==
    (VerifyReturned /\ UsableSecret) =>
        /\ vout.raised = "none"
        /\ vout.val <=> (vreq.sig.v = Sign(vreq.body, SharedSecretOf(venv)))

\* a request signed with the configured secret was accepted
C8_Witness ==
    /\ VerifyReturned
    /\ UsableSecret
    /\ Truthy(venv.SHARED_SECRET)
    /\ vreq.sigkind = "valid"
    /\ vout.val

\* C9 as claimed: when neither secret variable is set (or both are empty) the
\* verifier returns true for every body and signature, and no request is
\* answered 401.
C9_BypassWhenUnconfigured ==
    Unconfigured =>
        /\ VerifyReturned => vout.val
        /\ Responded => vresp.code # 401

\* C10: an error inside the verifier (the secret cannot be encoded, the
\* signature cannot be compared) makes it return false and raise nothing, and
\* the request is answered 401, not 500.
C10_FailClosed ==
    (vreq.sig.t = "str" /\ InternalError) =>
        /\ VerifyReturned => (~vout.val /\ vout.raised = "none" /\ vout.caught # "none")
        /\ (Responded /\ Truthy(vreq.sig)) => vresp.code = 401

\* a signature with a non-ASCII character was refused by the verifier and the
\* request answered 401
C10_Witness ==
    /\ vreq.sigkind = "non_ascii"
    /\ VerifyReturned
    /\ vout.caught = "TypeError"
    /\ ~vout.val
    /\ Responded
    /\ vresp.code = 401

----------------------------------------------------------------------------
(* The endpoint's answers, checked under SpecVerify *)

\* the request carries the signature header (its value may be empty)
HeaderPresent == vreq.sig.t = "str"
\* the header value is the sender's signature of the body under the configured
\* secret (a secret that cannot be encoded signs nothing)
Verifies == UsableSecret /\ vreq.sig.v = Sign(vreq.body, SharedSecretOf(venv))
Scheduled == vresp.enqueue /\ vqueue # <<>>

\* C11 as claimed: a request whose signature header is present and does not
\* verify is answered 401 and schedules nothing, whatever its body.
C11_Original ==
    (Responded /\ HeaderPresent /\ ~Verifies) =>
        /\ vresp.code = 401
        /\ ~Scheduled

\* C11 as the code has it: the same for a header whose value is not empty; 401
\* comes before 400 (malformed JSON) and before 200 (status not processing).
C11_BadSignatureRejected ==
    (Responded /\ HeaderPresent /\ vreq.sig.v # <<>> /\ ~Verifies) =>
        /\ vresp.code = 401
        /\ ~Scheduled

\* a wrongly signed request with a malformed body was answered 401
C11_Witness ==
    /\ Responded
    /\ vreq.sigkind = "other_key"
    /\ vreq.body = Raw_malformed
    /\ ~Verifies
    /\ vresp.code = 401
    /\ vqueue = <<>>

\* the request with the sender's signature of its body in the header
CorrectlySigned(req) == [req EXCEPT !.sig = PyStr(Sign(req.body, SharedSecretOf(venv)))]

\* C12: a request with no signature header is not verified and never answered
\* 401; it gets the answer, and the scheduling, that the same body gets when it
\* is correctly signed.
C12_UnsignedProceeds ==
    (Responded /\ ~HeaderPresent) =>
        /\ vresp.code # 401
        /\ UsableSecret => vresp = handle_webhook(CorrectlySigned(vreq), SharedSecretOf(venv))

\* an unsigned request with status processing was accepted and scheduled
C12_Witness ==
    /\ Responded
    /\ ~HeaderPresent
    /\ vreq.body = Raw_processing
    /\ vresp.code = 202
    /\ Scheduled

\* the event of the request, as the sender wrote it
Event == JsonLoads(vreq.body)
\* the request gets to the event filter: its signature is absent, empty or
\* right, and its body is an object the payload model accepts
ReachesFilter ==
    /\ ~HeaderPresent \/ vreq.sig.v = <<>> \/ Verifies
    /\ ParsesAsPayload(Event)
\* the event's status is "processing" in some letter case
Actionable ==
    /\ Event.status.t = "str"
    /\ Len(Event.status.v) = Len(T_processing)
    /\ \A i \in 1..Len(T_processing) :
         Event.status.v[i] \in {T_processing[i], UpperChar(T_processing[i])}

\* C13: an event that gets to the filter is scheduled and answered 202 when its
\* status is "processing" in any letter case, and is otherwise (status missing
\* or empty included) answered 200 with the ignored message and not scheduled;
\* nothing else is ever scheduled.
C13_EventFilter ==
    /\ (Responded /\ ReachesFilter) =>
          IF Actionable
          THEN vresp.code = 202 /\ Scheduled
          ELSE vresp.code = 200 /\ vresp.msg = "not processing" /\ ~Scheduled
    /\ (Responded /\ Scheduled) => Actionable

\* an event with status "PROCESSING" was scheduled
C13_Witness ==
    /\ Responded
    /\ vreq.body = Raw_no_ids
    /\ vresp.code = 202
    /\ Scheduled

\* the signature check lets the request through
PassesSignature == ~HeaderPresent \/ vreq.sig.v = <<>> \/ Verifies

\* C15 as claimed: a body that is malformed JSON, or JSON that is no object
\* (array, string, number, null), is answered 400, never 500, and schedules
\* nothing.
C15_BadBodyIs400 ==
    (/\ Responded
     /\ PassesSignature
     /\ Event.k \in {"JSONDecodeError", "UnicodeDecodeError", "array", "string",
                     "number", "null"})
    => /\ vresp.code = 400
       /\ ~Scheduled

\* handling the request raises something other than the two HTTPExceptions of
\* lines 117 and 124: the body is not UTF-8, or the payload model (or
\* payload.get) refuses the document
UnexpectedError ==
    /\ PassesSignature
    /\ Event.k # "JSONDecodeError"
    /\ Event.k = "UnicodeDecodeError" \/ ~ParsesAsPayload(Event)

\* C16: an unexpected error while handling a request is answered 500 with the
\* fixed text "Internal server error", whatever the exception was, and schedules
\* nothing; every 500 has that text.
C16_GenericServerError ==
    /\ (Responded /\ UnexpectedError) => vresp.code = 500
    /\ (Responded /\ vresp.code = 500) =>
          /\ vresp.msg = "Internal server error"
          /\ vresp.order_id = NoneV
          /\ ~Scheduled

\* a payload whose id is no integer was answered 500 with the fixed text
C16_Witness ==
    /\ Responded
    /\ vreq.body = Raw_bad_id
    /\ UnexpectedError
    /\ vresp.code = 500
    /\ vresp.msg = "Internal server error"
    /\ vqueue = <<>>

----------------------------------------------------------------------------
(* The manual test endpoint, fastAPI.dev_manual_webhook, next to the webhook
   endpoint: SpecDev gives one body to both, the webhook request unsigned or
   correctly signed *)

F_false == <<"f","a","l","s","e">>
F_true == <<"t","r","u","e">>
F_yes == <<"y","e","s">>
\* values of DEV_WEBHOOK_ENABLED: unset, "", "false", "0", "off", "1", "true",
\* "TRUE", "Yes", "on"
DevFlagValues ==
    {NoneV, PyStr(<<>>), PyStr(F_false), PyStr(<<"0">>), PyStr(<<"o","f","f">>),
     PyStr(<<"1">>), PyStr(F_true), PyStr(Cased(F_true, "upper")),
     PyStr(Cased(F_yes, "title")), PyStr(<<"o","n">>)}

\* enabled = os.getenv("DEV_WEBHOOK_ENABLED", "false").lower() in ("1", "true", "yes")
MutDevEnabledUnlessFalse(flag) == flag.t = "none" \/ Lower(flag.v) # F_false
DevEnabled(flag) ==
    Lower((IF flag.t = "none" THEN PyStr(F_false) ELSE flag).v) \in {<<"1">>, F_true, F_yes}

\* dev_manual_webhook, lines 158-185, with the exception handlers of lines 188-197
dev_manual_webhook(flag, body) ==
    LET payload == JsonLoads(body)
        order_id == PyOr(payload.order_id, payload.id)
    IN
    IF ~DevEnabled(flag)
    THEN Response(403, "Dev webhook disabled", NoneV, <<>>, FALSE)
    ELSE IF payload.k \in {"JSONDecodeError", "UnicodeDecodeError"}
    THEN Response(400, "Invalid JSON payload", NoneV, <<>>, FALSE)
    ELSE IF payload.k # "object"
    THEN Response(400, "Payload must be a JSON object", NoneV, <<>>, FALSE)
    ELSE Response(202, "accepted", order_id, <<>>, TRUE)

DevInit ==
    /\ denv \in DevFlagValues
    /\ dresp = VrespIdle
    /\ dqueue = <<>>
    /\ venv = [WEBHOOK_SECRET |-> PyStr(Secret1), SHARED_SECRET |-> NoneV]
    /\ \E kind \in {"absent", "valid"}, body \in Bodies :
         vreq = [sig |-> SigFor(kind, body, SharedSecretOf(venv)), sigkind |-> kind,
                 body |-> body]
    /\ vout = VoutIdle
    /\ vresp = VrespIdle
    /\ vqueue = <<>>

\* POST /webhook/test-manual with the body of vreq
DevManualWebhook ==
    /\ dresp.state = "idle"
    /\ dresp' = dev_manual_webhook(denv, vreq.body)
    /\ dqueue' = IF dresp'.enqueue THEN Append(dqueue, JsonLoads(vreq.body)) ELSE dqueue
    /\ UNCHANGED denv

InitDev == RunnerIdle /\ RegistryIdle /\ DevInit /\ UnitsIdle
NextDev ==
    \/ DevManualWebhook /\ UNCHANGED <<runnerVars, registryVars, verifyVars, unitVars>>
    \/ HandleWebhook /\ UNCHANGED <<runnerVars, registryVars, devVars, unitVars>>
SpecDev == InitDev /\ [][NextDev]_vars

DevResponded == dresp.state = "sent"
\* the flag is unset or set to something that says off
FlagOff == denv.t = "none" \/ Lower(denv.v) \in {<<>>, F_false, <<"0">>, <<"o","f","f">>}
\* the flag is set to one of the values the endpoint's documentation names
FlagOn == denv.t = "str" /\ Lower(denv.v) \in {<<"1">>, F_true}

\* C17: with the flag off, a request to the manual endpoint is answered 403 and
\* schedules nothing, whatever its body.
C17_DevDisabled ==
    (DevResponded /\ FlagOff) =>
        /\ dresp.code = 403
        /\ ~dresp.enqueue
        /\ dqueue = <<>>

\* with the flag set to "0", an actionable body was answered 403
C17_Witness ==
    /\ DevResponded
    /\ denv = PyStr(<<"0">>)
    /\ vreq.body = Raw_processing
    /\ dresp.code = 403
    /\ dqueue = <<>>

\* C18 as claimed, for the bodies the payload model accepts: with the flag on,
\* the manual endpoint and the webhook endpoint (request unsigned) answer a body
\* with the same status class and both schedule it or both do not, so an event
\* whose status is not "processing" is ignored by both.
C18_ManualSameAsWebhook ==
    (DevResponded /\ Responded /\ FlagOn /\ ~HeaderPresent /\ ParsesAsPayload(Event)) =>
        /\ (dresp.code \div 100) = (vresp.code \div 100)
        /\ dresp.enqueue = vresp.enqueue

----------------------------------------------------------------------------
(* Notifications and the runner's outcome, checked under Spec *)

\* the runner's except handler has called send_error_email
EmailCalled == cfg.smtp_port # "unread"

\* C19 as claimed: a notification call never raises to its caller and never
\* changes the outcome: once the error email has been called for, no exception
\* is in flight in the runner, and the unit ends with the runner's own value
\* (None, for a failure), whether the sink is configured or not and whether
\* the delivery succeeded or not.
C19_SinkNeverAffectsOutcome ==
    EmailCalled =>
        /\ pc \in {"finally", "run_automation"} => exc = "none"
        /\ pc \in {"background", "done"} => result = NoneV

----------------------------------------------------------------------------
(* From delivery to the background unit, SpecIntake: one request is handled;
   what it scheduled runs, after the response has gone out, as the background
   unit of Spec.  Each step of the unit is taken to return. *)

IntakeInit ==
    /\ pc = "idle"
    /\ order = [order_id |-> NoneV, id |-> NoneV, site |-> NoneV]
    /\ task \in Tasks
    /\ attempts = 0
    /\ bot = NoBot
    /\ ops = <<>>
    /\ ret = NoneV
    /\ exc = "none"
    /\ result = NoneV
    /\ sent = <<>>
    /\ cfg = CfgUnread
    /\ logs = <<>>
    /\ venv = [WEBHOOK_SECRET |-> PyStr(Secret1), SHARED_SECRET |-> NoneV]
    /\ \E kind \in {"absent", "valid", "other_key"}, body \in Bodies :
         vreq = [sig |-> SigFor(kind, body, SharedSecretOf(venv)), sigkind |-> kind,
                 body |-> body]
    /\ vout = VoutIdle
    /\ vresp = VrespIdle
    /\ vqueue = <<>>

\* the response carries the background tasks: they run once it has been sent
\* (add_task, line 140), each as _process_order_background(payload)
MutStartBackgroundDropsTask ==
    /\ pc = "idle"
    /\ vresp.state = "sent"
    /\ vqueue # <<>>
    /\ vqueue' = Tail(vqueue)
    /\ UNCHANGED <<pc, order, task, attempts, bot, ops, ret, exc, result, sent, cfg, logs,
                   venv, vreq, vout, vresp>>
StartBackground ==
    /\ pc = "idle"
    /\ vresp.state = "sent"
    /\ vqueue # <<>>
    /\ LET payload == Head(vqueue) IN
       order' = [order_id |-> payload.order_id, id |-> payload.id, site |-> payload.site]
    /\ vqueue' = Tail(vqueue)
    /\ pc' = "runner"
    /\ UNCHANGED <<task, attempts, bot, ops, ret, exc, result, sent, cfg, logs,
                   venv, vreq, vout, vresp>>

InitIntake == IntakeInit /\ RegistryIdle /\ DevIdle /\ UnitsIdle
NextIntake ==
    \/ HandleWebhook /\ UNCHANGED <<runnerVars, registryVars, devVars, unitVars>>
    \/ StartBackground /\ UNCHANGED <<registryVars, devVars, unitVars>>
    \/ RunnerResolve /\ UNCHANGED <<registryVars, verifyVars, devVars, unitVars>>
    \/ Construct /\ UNCHANGED <<registryVars, verifyVars, devVars, unitVars>>
    \/ initialize_driver /\ UNCHANGED <<registryVars, verifyVars, devVars, unitVars>>
    \/ login /\ UNCHANGED <<registryVars, verifyVars, devVars, unitVars>>
    \/ process_order /\ UNCHANGED <<registryVars, verifyVars, devVars, unitVars>>
    \/ except_handler /\ UNCHANGED <<registryVars, verifyVars, devVars, unitVars>>
    \/ finally_cleanup /\ UNCHANGED <<registryVars, verifyVars, devVars, unitVars>>
    \/ run_automation /\ UNCHANGED <<registryVars, verifyVars, devVars, unitVars>>
    \/ background /\ UNCHANGED <<registryVars, verifyVars, devVars, unitVars>>
\* a step of the background unit
BackgroundStep ==
    \/ StartBackground /\ UNCHANGED <<registryVars, devVars, unitVars>>
    \/ RunnerResolve /\ UNCHANGED <<registryVars, verifyVars, devVars, unitVars>>
    \/ Construct /\ UNCHANGED <<registryVars, verifyVars, devVars, unitVars>>
    \/ initialize_driver /\ UNCHANGED <<registryVars, verifyVars, devVars, unitVars>>
    \/ login /\ UNCHANGED <<registryVars, verifyVars, devVars, unitVars>>
    \/ process_order /\ UNCHANGED <<registryVars, verifyVars, devVars, unitVars>>
    \/ except_handler /\ UNCHANGED <<registryVars, verifyVars, devVars, unitVars>>
    \/ finally_cleanup /\ UNCHANGED <<registryVars, verifyVars, devVars, unitVars>>
    \/ run_automation /\ UNCHANGED <<registryVars, verifyVars, devVars, unitVars>>
    \/ background /\ UNCHANGED <<registryVars, verifyVars, devVars, unitVars>>
\* the server runs what a response scheduled, and every step of the unit returns
SpecIntake == InitIntake /\ [][NextIntake]_vars /\ WF_vars(BackgroundStep)

\* the request was answered 202
Accepted == vresp.state = "sent" /\ vresp.code = 202
\* the background unit has its result and has reported it
Terminal == pc = "done"
\* what one attempt may have invoked on its instance by the time it is over
AttemptRuns(i) ==
    {<<<<i, "initialize_driver">>, <<i, "cleanup">>>>,
     <<<<i, "initialize_driver">>, <<i, "login">>, <<i, "cleanup">>>>,
     <<<<i, "initialize_driver">>, <<i, "login">>, <<i, "process_order">>,
       <<i, "cleanup">>>>}

\* C14: the 202 is given before the unit has taken any step (nothing of the
\* task runs before the response, and only an accepted event is run); every
\* accepted event's unit eventually ends; and when it has ended, a bot that was
\* built has had initialize_driver, login, process_order and cleanup invoked in
\* that order, each at most once, initialize_driver and cleanup exactly once.
C14_AcceptedRunsToTheEnd ==
    /\ [](pc # "idle" => Accepted)
    /\ [](vresp.state = "idle" => (ops = <<>> /\ attempts = 0))
    /\ [](Terminal => (attempts = 0 /\ ops = <<>>) \/ (attempts = 1 /\ ops \in AttemptRuns(1)))
    /\ (Accepted ~> Terminal)

\* an accepted event whose bot ran all four operations, the unit ended
C14_Witness ==
    /\ Accepted
    /\ Terminal
    /\ vqueue = <<>>
    /\ ops = <<<<1, "initialize_driver">>, <<1, "login">>, <<1, "process_order">>,
               <<1, "cleanup">>>>
    /\ ret = VoucherPath

\* the status code the request calls for, by its signature and body alone
AnswerCode ==
    IF ~PassesSignature THEN 401
    ELSE IF Event.k = "JSONDecodeError" THEN 400
    ELSE IF UnexpectedError THEN 500
    ELSE IF Actionable THEN 202
    ELSE 200
\* the text of the response body that goes with a status code
AnswerText(code) ==
    CASE code = 401 -> "Invalid signature"
      [] code = 400 -> "Invalid JSON payload"
      [] code = 500 -> "Internal server error"
      [] code = 202 -> "accepted"
      [] OTHER -> "not processing"

\* C20: the response to a delivery (status code and body) is fixed by the
\* request alone, whatever the bot does for the order (succeeds, fails, raises),
\* and it is given before any step of the background unit: while there is no
\* response, nothing of the task has run.
C20_ResponseIndependentOfTask ==
    /\ Responded =>
          /\ vresp.code = AnswerCode
          /\ vresp.msg = AnswerText(AnswerCode)
          /\ vresp.order_id =
                IF AnswerCode \in {200, 202} THEN PyOr(Event.id, Event.order_id) ELSE NoneV
    /\ ~Responded => (pc = "idle" /\ ops = <<>> /\ attempts = 0 /\ sent = <<>>)

\* the event was accepted with 202 and its bot's process_order raised afterwards
C20_Witness ==
    /\ Accepted
    /\ Terminal
    /\ task[1] = "exec_raise"
    /\ CountAll("process_order") = 1
    /\ vresp.msg = "accepted"

----------------------------------------------------------------------------
(* Order of the bot's operations within an attempt, checked under Spec *)

\* the k-th invocation is the first of its instance
FirstOfInstance(k) == \A j \in 1..(k - 1) : ops[j][1] # ops[k][1]
\* before the k-th invocation, method m was invoked on the same instance
InvokedBefore(k, m) == \E j \in 1..(k - 1) : ops[j] = <<ops[k][1], m>>

\* C22: on one instance login is invoked only after initialize_driver returned
\* True, process_order only after login returned True, initialize_driver comes
\* first, and nothing is invoked on the instance after its cleanup.
C22_OperationsInOrder ==
    \A k \in 1..Len(ops) :
        LET m == ops[k][2]
            b == task[ops[k][1]]
        IN  /\ m = "initialize_driver" => FirstOfInstance(k)
            /\ m = "login" =>
                  /\ InvokedBefore(k, "initialize_driver")
                  /\ b \notin {"init_false", "init_raise"}
            /\ m = "process_order" =>
                  /\ InvokedBefore(k, "login")
                  /\ b \notin {"init_false", "init_raise", "login_false", "login_raise"}
            /\ m = "cleanup" => \A j \in (k + 1)..Len(ops) : ops[j][1] # ops[k][1]

\* login returned False: the instance was cleaned up without process_order
C22_Witness ==
    /\ RunnerExited
    /\ task[1] = "login_false"
    /\ ops = <<<<1, "initialize_driver">>, <<1, "login">>, <<1, "cleanup">>>>

----------------------------------------------------------------------------
(* The run as a whole: attempts, the returned value, the worker's alerts *)

\* the instance's process_order reported a success
Succeeded(b) == b \in {"exec_voucher", "exec_success"}

C26_ResultShape ==
    (RunnerExited /\ attempts >= 1 /\ exc = "none")
    => /\ Succeeded(task[attempts]) => ret # ResultOf("exec_failure")
       /\ ReturnedVoucher => task[attempts] \in {"exec_voucher", "exec_str"}

\* C27: when the order's task succeeded, with or without a voucher path, the
\* background worker sends no alert.
C27_AlertOnlyOnFailure ==
    (attempts >= 1 /\ Succeeded(task[attempts]))
    => \A k \in 1..Len(sent) : sent[k].sink # "slack"

----------------------------------------------------------------------------
(* The order id across the acknowledgment, the runner and the alerts *)

----------------------------------------------------------------------------
(* Several deliveries and their background units side by side: SpecUnits.
   Every accepted delivery schedules one unit (add_task); the units are stepped
   in any interleaving, which covers the one-after-another order of a single
   event loop as well as several worker processes. *)

\* deliveries the receiver handles
MaxDeliveries == 2

\* what the bot of one unit does: no driver, a refused login, a voucher
UnitBehaviours == {"init_false", "login_false", "exec_voucher"}
\* the events delivered: two orders in processing, and one completed
UnitBodies == {Raw_processing, Raw_both_ids, Raw_completed}
\* self.driver = None
NoSession == 0

\* utils.get_undetected_driver: launches a browser and returns its session, a
\* new one at every call
get_undetected_driver(n) == n + 1

\* bot = bot_class(): a new object at every call; the reference the unit holds
MutInstanceReused(heap) == 1
InstanceBuilt(heap) == Len(heap) + 1

\* self.driver.quit(): ends the session of this bot
MutQuitEverySession(open, d) == {}
QuitSession(open, d) == open \ {d}

\* the locals of a unit that add_task has scheduled
NewUnit(body, payload, how) ==
    [pc |-> "queued", event |-> body,
     order |-> [order_id |-> payload.order_id, id |-> payload.id, site |-> payload.site],
     how |-> how, bot |-> 0, session |-> NoSession, ops |-> <<>>, ret |-> NoneV,
     raised |-> "none"]

UnitsInit ==
    /\ pc = "idle"
    /\ order = [order_id |-> NoneV, id |-> NoneV, site |-> NoneV]
    /\ task = [n \in 1..MaxAttempts |-> "exec_voucher"]
    /\ attempts = 0
    /\ bot = NoBot
    /\ ops = <<>>
    /\ ret = NoneV
    /\ exc = "none"
    /\ result = NoneV
    /\ sent = <<>>
    /\ cfg = [CfgUnread EXCEPT !.smtp_port = "set"]
    /\ logs = <<>>
    /\ venv = [WEBHOOK_SECRET |-> PyStr(Secret1), SHARED_SECRET |-> NoneV]
    /\ vreq = [sig |-> NoneV, sigkind |-> "absent", body |-> <<>>]
    /\ vout = VoutIdle
    /\ vresp = VrespIdle
    /\ vqueue = <<>>
    /\ UnitsIdle

\* POST /webhook/woocommerce, once more: an accepted event is handed to add_task
\* (line 140) whatever was accepted before
Deliver ==
    /\ deliveries < MaxDeliveries
    /\ \E body \in UnitBodies, how \in UnitBehaviours :
         LET req == [sig |-> SigFor("valid", body, SharedSecretOf(venv)),
                     sigkind |-> "valid", body |-> body]
             resp == handle_webhook(req, SharedSecretOf(venv))
         IN  units' = IF resp.enqueue
                      THEN Append(units, NewUnit(body, JsonLoads(body), how))
                      ELSE units
    /\ deliveries' = deliveries + 1
    /\ UNCHANGED <<bots, sessions, opened>>

\* process_order_runner, lines 53-63: resolve the class and build the bot
UnitConstruct(u) ==
    LET me == units[u]
        r == get_bot_class_for_site(SiteOf(me.order), TRUE)
    IN  /\ me.pc = "queued"
        /\ IF r.raised # "none" \/ r.cls = "None"
           THEN /\ units' = [units EXCEPT ![u].pc = "done", ![u].raised = r.raised]
                /\ bots' = bots
           ELSE LET i == InstanceBuilt(bots) IN
                /\ bots' = IF i > Len(bots) THEN Append(bots, NoSession) ELSE bots
                /\ units' = [units EXCEPT ![u].pc = "initialize_driver", ![u].bot = i]
        /\ UNCHANGED <<sessions, opened, deliveries>>

\* bot.initialize_driver(), cbm_portal lines 30-46: a driver left on the object
\* is cleaned up first, then self.driver is the new session, or None
UnitInitializeDriver(u) ==
    LET me == units[u]
        i == me.bot
        swept == IF bots[i] # NoSession THEN QuitSession(sessions, bots[i]) ELSE sessions
    IN  /\ me.pc = "initialize_driver"
        /\ IF me.how = "init_false"
           THEN /\ bots' = [bots EXCEPT ![i] = NoSession]
                /\ sessions' = swept
                /\ opened' = opened
                /\ units' = [units EXCEPT
                                ![u].pc = "finally",
                                ![u].ops = Append(@, <<i, "initialize_driver", NoSession>>)]
           ELSE LET d == get_undetected_driver(opened) IN
                /\ bots' = [bots EXCEPT ![i] = d]
                /\ sessions' = swept \cup {d}
                /\ opened' = d
                /\ units' = [units EXCEPT
                                ![u].pc = "login",
                                ![u].session = d,
                                ![u].ops = Append(@, <<i, "initialize_driver", d>>)]
        /\ UNCHANGED deliveries

\* bot.login(), cbm_portal lines 48-69: self.driver.get on a session that is
\* gone raises, which is caught and answered False
UnitLogin(u) ==
    LET me == units[u]
        d == bots[me.bot]
    IN  /\ me.pc = "login"
        /\ units' = [units EXCEPT
                        ![u].ops = Append(@, <<me.bot, "login", d>>),
                        ![u].pc = IF d \in sessions /\ me.how # "login_false"
                                  THEN "process_order" ELSE "finally"]
        /\ UNCHANGED <<bots, sessions, opened, deliveries>>

\* result = bot.process_order(order_data) and what the runner makes of it, lines
\* 78-107; neither bot's process_order touches the driver
UnitProcessOrder(u) ==
    LET me == units[u] IN
    /\ me.pc = "process_order"
    /\ units' = [units EXCEPT
                    ![u].ops = Append(@, <<me.bot, "process_order", bots[me.bot]>>),
                    ![u].ret = IF me.how \in RaisingBehaviours THEN NoneV
                               ELSE ResultOf(me.how),
                    ![u].raised = IF /\ me.how \in RaisingBehaviours
                                     /\ send_error_email_raises(cfg.smtp_port)
                                  THEN "TypeError" ELSE "none",
                    ![u].pc = "finally"]
    /\ UNCHANGED <<bots, sessions, opened, deliveries>>

\* finally: bot.cleanup(), cbm_portal lines 91-98
UnitCleanup(u) ==
    LET me == units[u]
        d == bots[me.bot]
    IN  /\ me.pc = "finally"
        /\ sessions' = IF d # NoSession THEN QuitSession(sessions, d) ELSE sessions
        /\ bots' = [bots EXCEPT ![me.bot] = NoSession]
        /\ units' = [units EXCEPT
                        ![u].ops = Append(@, <<me.bot, "cleanup", d>>),
                        ![u].pc = "done"]
        /\ UNCHANGED <<opened, deliveries>>

InitUnits == UnitsInit /\ RegistryIdle /\ DevIdle
NextUnits ==
    \/ Deliver
         /\ UNCHANGED <<runnerVars, registryVars, verifyVars, devVars>>
    \/ (\E u \in DOMAIN units : UnitConstruct(u))
         /\ UNCHANGED <<runnerVars, registryVars, verifyVars, devVars>>
    \/ (\E u \in DOMAIN units : UnitInitializeDriver(u))
         /\ UNCHANGED <<runnerVars, registryVars, verifyVars, devVars>>
    \/ (\E u \in DOMAIN units : UnitLogin(u))
         /\ UNCHANGED <<runnerVars, registryVars, verifyVars, devVars>>
    \/ (\E u \in DOMAIN units : UnitProcessOrder(u))
         /\ UNCHANGED <<runnerVars, registryVars, verifyVars, devVars>>
    \/ (\E u \in DOMAIN units : UnitCleanup(u))
         /\ UNCHANGED <<runnerVars, registryVars, verifyVars, devVars>>
SpecUnits == InitUnits /\ [][NextUnits]_vars

----------------------------------------------------------------------------
(* Properties of units side by side, checked under SpecUnits *)

\* the unit has entered process_order_runner
Started(u) == units[u].pc # "queued"
\* the unit holds a driver: initialize_driver gave one, cleanup has not run
HoldsSession(u) == units[u].pc \in {"login", "process_order", "finally"}
\* what the unit ends with when no other unit runs: None after a stage said
\* False, the runner's reading of the result of process_order, and the
\* TypeError of send_error_email when a stage raised and SMTP_PORT is unset
AloneOutcome(how, port) ==
    [ret |-> IF how \in RaisingBehaviours THEN NoneV ELSE ResultOf(how),
     raised |-> IF how \in RaisingBehaviours /\ send_error_email_raises(port)
                THEN "TypeError" ELSE "none"]

\* C21: however often an actionable event is accepted, at most one run is
\* started for its order id.
C21_IdempotentAcceptance ==
    \A u, v \in DOMAIN units :
        (/\ u # v
         /\ Started(u)
         /\ Started(v))
        => OrderIdOf(units[u].order) # OrderIdOf(units[v].order)

\* C24: every run builds one bot of its own: the runs that reached the
\* constructor each hold a different object, there are as many objects as such
\* runs, and no object has a method invoked by two runs or a second driver
\* opened on it.
C24_FreshInstancePerRun ==
    /\ Len(bots) = Cardinality({u \in DOMAIN units : units[u].bot # 0})
    /\ \A u, v \in DOMAIN units :
          (u # v /\ units[u].bot # 0) => units[u].bot # units[v].bot
    /\ \A u, v \in DOMAIN units :
          u # v => \A k \in DOMAIN units[u].ops, j \in DOMAIN units[v].ops :
                      units[u].ops[k][1] # units[v].ops[j][1]
    /\ \A u \in DOMAIN units :
          Cardinality({k \in DOMAIN units[u].ops :
                          units[u].ops[k][2] = "initialize_driver"}) <= 1

\* two runs of different orders, both over, each on its own object
C24_Witness ==
    /\ Len(units) = 2
    /\ units[1].pc = "done" /\ units[2].pc = "done"
    /\ OrderIdOf(units[1].order) # OrderIdOf(units[2].order)
    /\ units[1].bot = 2 /\ units[2].bot = 1
    /\ Len(units[1].ops) = 4 /\ Len(units[2].ops) = 4

\* C25: under any interleaving, every method a unit invokes acts on the unit's
\* own bot and on no session but the one that bot opened; a session a unit
\* holds stays open until that unit's own cleanup; and a unit that is over has
\* the value, or the exception, it has when it runs alone.
C25_UnitsShareNothing ==
    \A u \in DOMAIN units :
        LET me == units[u] IN
        /\ \A k \in DOMAIN me.ops :
              /\ me.ops[k][1] = me.bot
              /\ me.ops[k][3] \in {NoSession, me.session}
        /\ \A v \in DOMAIN units :
              (v # u /\ me.session # NoSession) => units[v].session # me.session
        /\ HoldsSession(u) /\ me.session # NoSession => me.session \in sessions
        /\ (me.pc = "done" /\ me.bot # 0)
              => [ret |-> me.ret, raised |-> me.raised]
                    = AloneOutcome(me.how, cfg.smtp_port)

\* the unit scheduled first opened its session second, has released it and has
\* its voucher, while the other unit still holds its own session
C25_Witness ==
    /\ Len(units) = 2
    /\ units[1].session = 2 /\ units[2].session = 1
    /\ units[1].pc = "done" /\ units[1].ret = VoucherPath
    /\ units[2].pc = "process_order"
    /\ sessions = {1}

====
